---- MODULE Spec2Model ----
(***************************************************************************)
(* Model of the request handlers of src/app.py (LegaLese backend): text   *)
(* extraction by media type, the generation client, the analysis response *)
(* interpreter and the /analyze, /simplify, /chat and /signup handlers.   *)
(*                                                                         *)
(* Texts are sequences of strings.  Text that the code inspects character *)
(* by character (generation responses, uploaded bytes after decoding) is  *)
(* a sequence of one-character strings; fixed literals of the code that   *)
(* are only concatenated (prompt templates, error messages, the API key)  *)
(* are single elements.                                                   *)
(***************************************************************************)
EXTENDS Integers, Sequences, FiniteSets, TLC

VARIABLES pc, req, raw_text, formatted_text, calls, resp

vars == <<pc, req, raw_text, formatted_text, calls, resp>>

(***************************************************************************)
(* Bounds of the model.                                                    *)
(***************************************************************************)
\* longest uploaded file, in bytes
MaxBytes == 2
\* deepest run of unclosed "[" in a generation response
MaxNest == 3
\* nesting depth at which the JSON decoder gives up with RecursionError
\* (the interpreter's recursion limit, scaled down to the texts of the model)
RecursionLimit == 2

(***************************************************************************)
(* String operations of the Python runtime used by the code.               *)
(***************************************************************************)
Whitespace == {" ", "\n"}

\* p occurs in s starting at index i
MatchAt(p, s, i) ==
  /\ i >= 1
  /\ i + Len(p) - 1 <= Len(s)
  /\ \A k \in 1..Len(p) : s[i + k - 1] = p[k]

\* s.startswith(p)
StartsWith(s, p) == MatchAt(p, s, 1)

\* s.endswith(p)
EndsWith(s, p) == MatchAt(p, s, Len(s) - Len(p) + 1)

\* p in s
Contains(s, p) == \E i \in 1..(Len(s) + 1) : MatchAt(p, s, i)

\* s.replace(old, ""): every non-overlapping occurrence, scanning from the left
RECURSIVE RemoveAll(_, _)
RemoveAll(s, old) ==
  IF s = <<>> THEN <<>>
  ELSE IF MatchAt(old, s, 1)
       THEN RemoveAll(SubSeq(s, Len(old) + 1, Len(s)), old)
       ELSE <<Head(s)>> \o RemoveAll(Tail(s), old)

RECURSIVE LStrip(_)
LStrip(s) ==
  IF s # <<>> /\ Head(s) \in Whitespace THEN LStrip(Tail(s)) ELSE s

RECURSIVE RStrip(_)
RStrip(s) ==
  IF s # <<>> /\ s[Len(s)] \in Whitespace
  THEN RStrip(SubSeq(s, 1, Len(s) - 1)) ELSE s

\* s.strip()
Strip(s) == RStrip(LStrip(s))

(***************************************************************************)
(* json.loads on a text: a recursive-descent decoder for objects, arrays,  *)
(* strings without escapes and unsigned integers.  The value is returned   *)
(* in canonical form (the text of the value without insignificant          *)
(* whitespace).  st is "ok", "err" (json.JSONDecodeError) or "rec"         *)
(* (RecursionError: containers nested deeper than the recursion limit).    *)
(***************************************************************************)
Digits == {"0", "1", "2", "3", "4", "5", "6", "7", "8", "9"}

PErr == [st |-> "err", val |-> <<>>, pos |-> 0]
PRec == [st |-> "rec", val |-> <<>>, pos |-> 0]
POk(v, p) == [st |-> "ok", val |-> v, pos |-> p]

RECURSIVE SkipWs(_, _)
SkipWs(s, i) ==
  IF i <= Len(s) /\ s[i] \in Whitespace THEN SkipWs(s, i + 1) ELSE i

\* index of the quote closing the string opened before i; 0 if a control
\* character or the end of the text comes first
RECURSIVE StringEnd(_, _)
StringEnd(s, i) ==
  IF i > Len(s) \/ s[i] = "\n" THEN 0
  ELSE IF s[i] = "\"" THEN i
  ELSE StringEnd(s, i + 1)

ParseString(s, i) ==
  LET e == StringEnd(s, i + 1)
  IN IF e = 0 THEN PErr ELSE POk(SubSeq(s, i, e), e + 1)

RECURSIVE DigitsEnd(_, _)
DigitsEnd(s, i) ==
  IF i <= Len(s) /\ s[i] \in Digits THEN DigitsEnd(s, i + 1) ELSE i

ParseNumber(s, i) ==
  LET e == IF s[i] = "0" THEN i + 1 ELSE DigitsEnd(s, i)
  IN POk(SubSeq(s, i, e - 1), e)

RECURSIVE ParseValue(_, _, _)
RECURSIVE ParseItems(_, _, _, _)
RECURSIVE ParseMembers(_, _, _, _)

\* the elements of an array from index i on, up to and including "]"
ParseItems(s, i, d, acc) ==
  LET v == ParseValue(s, i, d)
  IN IF v.st # "ok" THEN v
     ELSE LET k == SkipWs(s, v.pos)
          IN IF k > Len(s) THEN PErr
             ELSE IF s[k] = ","
                  THEN ParseItems(s, SkipWs(s, k + 1), d, acc \o v.val \o <<",">>)
             ELSE IF s[k] = "]" THEN POk(acc \o v.val \o <<"]">>, k + 1)
             ELSE PErr

\* the members of an object from index i on, up to and including "}"
ParseMembers(s, i, d, acc) ==
  IF i > Len(s) \/ s[i] # "\"" THEN PErr
  ELSE LET key == ParseString(s, i)
       IN IF key.st # "ok" THEN PErr
          ELSE LET c == SkipWs(s, key.pos)
               IN IF c > Len(s) \/ s[c] # ":" THEN PErr
                  ELSE LET v == ParseValue(s, SkipWs(s, c + 1), d)
                       IN IF v.st # "ok" THEN v
                          ELSE LET k == SkipWs(s, v.pos)
                                   m == acc \o key.val \o <<":">> \o v.val
                               IN IF k > Len(s) THEN PErr
                                  ELSE IF s[k] = ","
                                       THEN ParseMembers(s, SkipWs(s, k + 1), d, m \o <<",">>)
                                  ELSE IF s[k] = "}" THEN POk(m \o <<"}">>, k + 1)
                                  ELSE PErr

\* the value starting at index i, inside d containers
ParseValue(s, i, d) ==
  IF i > Len(s) THEN PErr
  ELSE IF s[i] = "\"" THEN ParseString(s, i)
  ELSE IF s[i] \in Digits THEN ParseNumber(s, i)
  ELSE IF s[i] = "["
       THEN IF d + 1 > RecursionLimit THEN PRec
            ELSE LET j == SkipWs(s, i + 1)
                 IN IF j <= Len(s) /\ s[j] = "]" THEN POk(<<"[", "]">>, j + 1)
                    ELSE ParseItems(s, j, d + 1, <<"[">>)
  ELSE IF s[i] = "{"
       THEN IF d + 1 > RecursionLimit THEN PRec
            ELSE LET j == SkipWs(s, i + 1)
                 IN IF j <= Len(s) /\ s[j] = "}" THEN POk(<<"{", "}">>, j + 1)
                    ELSE ParseMembers(s, j, d + 1, <<"{">>)
  ELSE PErr

\* json.loads(s)
JsonLoads(s) ==
  LET v == ParseValue(s, SkipWs(s, 1), 0)
  IN IF v.st # "ok" THEN v
     ELSE IF SkipWs(s, v.pos) # Len(s) + 1 THEN PErr
     ELSE v

(***************************************************************************)
(* Process-wide configuration and literals of the code.                    *)
(***************************************************************************)
API_KEY == "<API_KEY>"

\* the request URL of the generation service; its query carries the key
GeminiUrl ==
  <<"https://generativelanguage.googleapis.com/v1beta/models/gemini-1.5-flash-latest:generateContent?key=",
    API_KEY>>

DocxMarker == <<"wordprocessingml.document">>
PdfPrefix == <<"application/", "pdf">>
ImagePrefix == <<"image/">>
TextPrefix == <<"text/">>

\* the backquote character (one element, like every other character)
BT == "<backquote>"
FenceJson == <<BT, BT, BT, "j", "s", "o", "n">>
Fence == <<BT, BT, BT>>

\* {"fairnessScore": 0, "summary": "Could not analyze.", "riskRadar": []}
Fallback ==
  <<"{", "\"", "fairnessScore", "\"", ":", "0", ",",
    "\"", "summary", "\"", ":", "\"", "Could not analyze.", "\"", ",",
    "\"", "riskRadar", "\"", ":", "[", "]", "}">>

(***************************************************************************)
(* bytes.decode('utf-8') for one- and two-byte sequences.                  *)
(***************************************************************************)
Chr(b) == IF b = 65 THEN "A" ELSE "?"
Chr2(b1, b2) == IF b1 = 195 /\ b2 = 169 THEN "e-acute" ELSE "??"

RECURSIVE Utf8Decode(_)
Utf8Decode(b) ==
  IF b = <<>> THEN [ok |-> TRUE, text |-> <<>>]
  ELSE IF b[1] < 128
       THEN LET r == Utf8Decode(Tail(b))
            IN [ok |-> r.ok, text |-> <<Chr(b[1])>> \o r.text]
  ELSE IF b[1] >= 194 /\ b[1] <= 223 /\ Len(b) >= 2 /\ b[2] >= 128 /\ b[2] <= 191
       THEN LET r == Utf8Decode(Tail(Tail(b)))
            IN [ok |-> r.ok, text |-> <<Chr2(b[1], b[2])>> \o r.text]
  ELSE [ok |-> FALSE, text |-> <<>>]

\* '\n'.join(paras)
RECURSIVE JoinLines(_)
JoinLines(paras) ==
  IF paras = <<>> THEN <<>>
  ELSE IF Len(paras) = 1 THEN paras[1]
  ELSE paras[1] \o <<"\n">> \o JoinLines(Tail(paras))

(***************************************************************************)
(* get_text_from_file(file_content, mime_type).  ext holds what the two    *)
(* external collaborators answer if they are asked: ext.docx for the       *)
(* document parser, ext.vision for the OCR service.  The result names the  *)
(* strategy that ran (svc), whether it returned, and the text returned or  *)
(* the message of the exception raised.                                    *)
(***************************************************************************)
ExtractResult(svc, ok, text) == [svc |-> svc, ok |-> ok, text |-> text]

\* a variant without the emptiness check of the first line
GetTextNoEmptyCheck(file_content, mime_type, ext) ==
  IF Contains(mime_type, DocxMarker)
  THEN IF ext.docx.kind = "ok"
       THEN ExtractResult("docx", TRUE, JoinLines(ext.docx.paras))
       ELSE ExtractResult("docx", FALSE, <<"Error reading .docx file: ">> \o ext.docx.paras[1])
  ELSE IF StartsWith(mime_type, PdfPrefix) \/ StartsWith(mime_type, ImagePrefix)
  THEN IF ext.vision.kind = "raise"
       THEN ExtractResult("vision", FALSE, ext.vision.text)
       ELSE IF ext.vision.kind = "error"
       THEN ExtractResult("vision", FALSE, <<"Vision AI Error: ">> \o ext.vision.text)
       ELSE ExtractResult("vision", TRUE, ext.vision.text)
  ELSE IF StartsWith(mime_type, TextPrefix)
  THEN LET r == Utf8Decode(file_content)
       IN IF r.ok THEN ExtractResult("decode", TRUE, r.text)
          ELSE ExtractResult("decode", FALSE, <<"Could not read text file.">>)
  ELSE ExtractResult("none", FALSE, <<"Unsupported file type: ">> \o mime_type \o <<".">>)

\* a variant that tests the text/ prefix before the document marker
GetTextTextFirst(file_content, mime_type, ext) ==
  IF file_content = <<>>
  THEN ExtractResult("none", FALSE, <<"The uploaded file is empty.">>)
  ELSE IF StartsWith(mime_type, TextPrefix)
  THEN LET r == Utf8Decode(file_content)
       IN IF r.ok THEN ExtractResult("decode", TRUE, r.text)
          ELSE ExtractResult("decode", FALSE, <<"Could not read text file.">>)
  ELSE GetTextNoEmptyCheck(file_content, mime_type, ext)

get_text_from_file(file_content, mime_type, ext) ==
  IF file_content = <<>>
  THEN ExtractResult("none", FALSE, <<"The uploaded file is empty.">>)
  ELSE IF Contains(mime_type, DocxMarker)
  THEN IF ext.docx.kind = "ok"
       THEN ExtractResult("docx", TRUE, JoinLines(ext.docx.paras))
       ELSE ExtractResult("docx", FALSE, <<"Error reading .docx file: ">> \o ext.docx.paras[1])
  ELSE IF StartsWith(mime_type, PdfPrefix) \/ StartsWith(mime_type, ImagePrefix)
  THEN IF ext.vision.kind = "raise"
       THEN ExtractResult("vision", FALSE, ext.vision.text)
       ELSE IF ext.vision.kind = "error"
       THEN ExtractResult("vision", FALSE, <<"Vision AI Error: ">> \o ext.vision.text)
       ELSE ExtractResult("vision", TRUE, ext.vision.text)
  ELSE IF StartsWith(mime_type, TextPrefix)
  THEN LET r == Utf8Decode(file_content)
       IN IF r.ok THEN ExtractResult("decode", TRUE, r.text)
          ELSE ExtractResult("decode", FALSE, <<"Could not read text file.">>)
  ELSE ExtractResult("none", FALSE, <<"Unsupported file type: ">> \o mime_type \o <<".">>)

(***************************************************************************)
(* call_gemini_api(prompt).  reply is what the one requests.post returns:  *)
(* kind "transport" (the request raised; shape says whether the message    *)
(* quotes the URL) or kind "http" with a status, and the shape of the      *)
(* decoded body: "notjson", "nocands" (no candidates key), "emptycands",   *)
(* "nocontent" (a first candidate without content) or "text" (the first    *)
(* candidate's first part holds reply.text).                               *)
(***************************************************************************)
\* response.text
RawBody(reply) ==
  IF reply.shape = "notjson" THEN <<"<html>">>
  ELSE IF reply.shape = "nocands" THEN <<"{}">>
  ELSE IF reply.shape = "emptycands" THEN <<"{\"candidates\": []}">>
  ELSE IF reply.shape = "nocontent"
       THEN <<"{\"candidates\": [{\"finishReason\": \"SAFETY\"}]}">>
  ELSE <<"{\"candidates\": [{\"content\": {\"parts\": [{\"text\": \"">>
         \o reply.text \o <<"\"}]}}]}">>

\* str(e) of the exception requests.post raised
TransportMessage(reply, url) ==
  IF reply.shape = "with_url"
  THEN <<"HTTPSConnectionPool: Max retries exceeded with url: ">> \o url
  ELSE <<"Connection aborted.">>

GenResult(ok, text) == [ok |-> ok, text |-> text]

\* a variant that accepts every status from 200 to 299
CallGemini2xx(prompt, reply) ==
  IF reply.kind = "transport"
  THEN GenResult(FALSE, TransportMessage(reply, GeminiUrl))
  ELSE IF reply.status < 200 \/ reply.status > 299
  THEN GenResult(FALSE, <<"Google API Error: ", ToString(reply.status), " ">> \o RawBody(reply))
  ELSE IF reply.shape = "notjson"
  THEN GenResult(FALSE, <<"Expecting value: line 1 column 1 (char 0)">>)
  ELSE IF reply.shape \in {"nocands", "emptycands"}
  THEN GenResult(FALSE, <<"API returned no candidates. The prompt may have been blocked.">>)
  ELSE IF reply.shape = "nocontent"
  THEN GenResult(FALSE, <<"'content'">>)
  ELSE GenResult(TRUE, reply.text)

call_gemini_api(prompt, reply) ==
  IF reply.kind = "transport"
  THEN GenResult(FALSE, TransportMessage(reply, GeminiUrl))
  ELSE IF reply.status # 200
  THEN GenResult(FALSE, <<"Google API Error: ", ToString(reply.status), " ">> \o RawBody(reply))
  ELSE IF reply.shape = "notjson"
  THEN GenResult(FALSE, <<"Expecting value: line 1 column 1 (char 0)">>)
  ELSE IF reply.shape \in {"nocands", "emptycands"}
  THEN GenResult(FALSE, <<"API returned no candidates. The prompt may have been blocked.">>)
  ELSE IF reply.shape = "nocontent"
  THEN GenResult(FALSE, <<"'content'">>)
  ELSE GenResult(TRUE, reply.text)

(***************************************************************************)
(* The four prompts.                                                       *)
(***************************************************************************)
AnalyzePrompt(document_text) ==
  <<"Analyze the following legal document and provide a structured JSON analysis with keys \"fairnessScore\", \"summary\", and \"riskRadar\". The riskRadar should be an array of objects, each with \"level\", \"title\", and \"explanation\".\n\nDOCUMENT:\n">>
    \o document_text

ReformatPrompt(document_text) ==
  <<"Reformat the following text for maximum readability, applying proper paragraphs and structure. Do not change the wording. Return only the formatted text.\n\nDOCUMENT:\n">>
    \o document_text

SimplifyPrompt(document_text) ==
  <<"Rewrite the following document in plain, easy-to-understand language. Maintain the original structure. Return only the simplified text.\n\nDOCUMENT:\n">>
    \o document_text

ChatPrompt(document_text, question) ==
  <<"Based ONLY on the document text provided, answer the user's question concisely.\n\nDOCUMENT:\n">>
    \o document_text \o <<"\n\nQUESTION:\n">> \o question

(***************************************************************************)
(* analyze_document_with_gemini, after the generation call returned        *)
(* response_text: clean, parse, fall back on JSONDecodeError.  Any other   *)
(* exception of json.loads propagates.                                     *)
(***************************************************************************)
CleanResponse(response_text) ==
  Strip(RemoveAll(RemoveAll(response_text, FenceJson), Fence))

InterpretResponse(response_text) ==
  LET p == JsonLoads(CleanResponse(response_text))
  IN IF p.st = "ok" THEN GenResult(TRUE, p.val)
     ELSE IF p.st = "err" THEN GenResult(TRUE, Fallback)
     ELSE GenResult(FALSE, <<"maximum recursion depth exceeded while decoding a JSON array">>)

(***************************************************************************)
(* Requests and the answers of the external collaborators.                 *)
(***************************************************************************)
SeqsUpTo(S, n) == UNION {[1..k -> S] : k \in 0..n}

\* bytes of an upload: "A", the two bytes of e-acute, and what is invalid
\* when they stand alone
ByteValues == {65, 195, 169}
Uploads == SeqsUpTo(ByteValues, MaxBytes)

\* file.mimetype
MimeTypes ==
  { <<"application/", "vnd.openxmlformats-officedocument.", "wordprocessingml.document">>,
    <<"text/", "wordprocessingml.document">>,
    <<"application/", "pdf">>,
    <<"image/", "png">>,
    <<"text/", "plain">>,
    <<"application/", "zip">>,
    <<>> }

JsonKeys == {"documentText", "question", "email", "password", "other"}
FieldValues == {<<>>, <<"A">>}

\* request.get_json(): a body that is no JSON ("malformed": get_json
\* raises), the JSON null ("none": get_json returns None) or an object
NoData == [kind |-> "none", keys |-> {}, vals |-> [k \in JsonKeys |-> <<>>]]
MalformedData == [kind |-> "malformed", keys |-> {}, vals |-> [k \in JsonKeys |-> <<>>]]
JsonObjects(keyset) ==
  UNION { { [kind |-> "object", keys |-> K, vals |-> v] :
              v \in {w \in [JsonKeys -> FieldValues] : \A k \in JsonKeys \ K : w[k] = <<>>} } :
          K \in SUBSET keyset }
JsonBodies(keyset) == {NoData, MalformedData} \cup JsonObjects(keyset)

NoRequest ==
  [route |-> "", hasFile |-> FALSE, filename |-> <<>>, bytes |-> <<>>,
   mime |-> <<>>, data |-> NoData]

AnalyzeRequests ==
  { [NoRequest EXCEPT !.route = "analyze"] }
  \cup { [route |-> "analyze", hasFile |-> TRUE, filename |-> f, bytes |-> b,
          mime |-> m, data |-> NoData] :
           f \in {<<>>, <<"contract">>}, b \in Uploads, m \in MimeTypes }

JsonRequests(route, keyset) ==
  { [NoRequest EXCEPT !.route = route, !.data = d] : d \in JsonBodies(keyset) }

Requests ==
  AnalyzeRequests
  \cup JsonRequests("simplify", {"documentText", "other"})
  \cup JsonRequests("chat", {"documentText", "question"})
  \cup JsonRequests("signup", {"email", "password"})

\* docx.Document(...): the paragraphs, or an exception
DocxOutcomes ==
  { [kind |-> "ok", paras |-> p] : p \in {<<>>, << <<"A">>, <<"B">> >>} }
  \cup { [kind |-> "raise", paras |-> << <<"File is not a zip file">> >>] }

\* document_text_detection(...): the detected text, an error field, or an
\* exception of the client
VisionOutcomes ==
  { [kind |-> "ok", text |-> t] : t \in {<<>>, <<"A">>} }
  \cup { [kind |-> "error", text |-> <<"Bad image data.">>],
         [kind |-> "raise", text |-> <<"503 failed to connect to all addresses">>] }

ExtOutcomes == [docx : DocxOutcomes, vision : VisionOutcomes]

\* k unclosed opening brackets
RECURSIVE Nest(_)
Nest(k) == IF k = 0 THEN <<>> ELSE <<"[">> \o Nest(k - 1)

\* what the model answers between the fences
ResponseBodies ==
  { Nest(k) : k \in 0..MaxNest }
  \cup { <<"{", "}">>,
         <<"{", "\"", "a", "\"", ":", " ", "0", "}">>,
         <<"{", "\"", "a", "\"", ":", "\"", BT, BT, BT, "\"", "}">>,
         <<"[", "]">>,
         <<"x">> }

LeadFences == {<<>>, FenceJson \o <<"\n">>, Fence \o <<"\n">>}
TrailFences == {<<>>, <<"\n">> \o Fence}

\* texts of a first candidate: answers with and without fences, and a
\* plain line that ends with a newline
ResponseTexts ==
  { l \o b \o t : l \in LeadFences, b \in ResponseBodies, t \in TrailFences }
  \cup { <<"x", "\n">> }

Reply(kind, status, shape, text) ==
  [kind |-> kind, status |-> status, shape |-> shape, text |-> text]

NoReply == Reply("", 0, "", <<>>)

\* what requests.post does
Replies ==
  { Reply("transport", 0, sh, <<>>) : sh \in {"with_url", "without_url"} }
  \cup { Reply("http", 200, sh, <<>>) : sh \in {"notjson", "nocands", "emptycands", "nocontent"} }
  \cup { Reply("http", 200, "text", t) : t \in ResponseTexts }
  \cup { Reply("http", st, sh, <<>>) : st \in {201, 503}, sh \in {"notjson", "emptycands"} }
  \cup { Reply("http", st, "text", <<"x">>) : st \in {201, 503} }

\* auth.create_user(...): the new user's uid, or an exception with or
\* without a code attribute
AuthOutcomes ==
  { [ok |-> TRUE, uid |-> <<"u123">>, code |-> ""] }
  \cup { [ok |-> FALSE, uid |-> <<>>, code |-> c] :
           c \in {"EMAIL_EXISTS", "WEAK_PASSWORD", "INTERNAL_ERROR", ""} }

(***************************************************************************)
(* Responses and the log of external calls.                                *)
(***************************************************************************)
EmptyBody ==
  [keys |-> {}, error |-> <<>>, analysis |-> <<>>, fullText |-> <<>>,
   simplifiedText |-> <<>>, answer |-> <<>>, uid |-> <<>>]

ErrorBody(msg) == [EmptyBody EXCEPT !.keys = {"error"}, !.error = msg]

Response(status, body) == [status |-> status, body |-> body]

NoResponse == Response(0, EmptyBody)

Call(svc, arg, ok, out, reply) ==
  [svc |-> svc, arg |-> arg, ok |-> ok, out |-> out, reply |-> reply]

Answer(r) == /\ resp' = r
             /\ pc' = "done"

(***************************************************************************)
(* The state machine: one request at a time.                               *)
(***************************************************************************)
Init ==
  /\ pc = "idle"
  /\ req = NoRequest
  /\ raw_text = <<>>
  /\ formatted_text = <<>>
  /\ calls = <<>>
  /\ resp = NoResponse

ReceiveRequest ==
  /\ pc = "idle"
  /\ \E r \in Requests : req' = r
  /\ pc' = "handler"
  /\ UNCHANGED <<raw_text, formatted_text, calls, resp>>

\* analyze_endpoint, the two checks of the upload
AnalyzeValidate ==
  /\ pc = "handler"
  /\ req.route = "analyze"
  /\ IF ~req.hasFile
     THEN Answer(Response(400, ErrorBody(<<"No file part">>)))
     ELSE IF req.filename = <<>>
     THEN Answer(Response(400, ErrorBody(<<"No file selected">>)))
     ELSE pc' = "extract" /\ UNCHANGED resp
  /\ UNCHANGED <<req, raw_text, formatted_text, calls>>

\* analyze_endpoint: raw_text = get_text_from_file(file.read(), file.mimetype).
\* file.read() takes the content out of the upload's stream: req.bytes is
\* what is still unread.
AnalyzeExtract ==
  /\ pc = "extract"
  /\ \E ext \in ExtOutcomes :
       LET r == get_text_from_file(req.bytes, req.mime, ext)
       IN /\ calls' = IF r.svc = "none" THEN calls
                      ELSE Append(calls, Call(r.svc, <<>>, r.ok, r.text, NoReply))
          /\ IF r.ok
             THEN /\ raw_text' = r.text
                  /\ pc' = "reformat"
                  /\ UNCHANGED resp
             ELSE /\ Answer(Response(500, ErrorBody(r.text)))
                  /\ UNCHANGED raw_text
  /\ req' = [req EXCEPT !.bytes = <<>>]
  /\ UNCHANGED formatted_text

\* analyze_endpoint: formatted_text = reformat_document_with_gemini(raw_text)
AnalyzeReformat ==
  /\ pc = "reformat"
  /\ \E reply \in Replies :
       LET prompt == ReformatPrompt(raw_text)
           r == call_gemini_api(prompt, reply)
       IN /\ calls' = Append(calls, Call("gemini", prompt, r.ok, r.text, reply))
          /\ IF r.ok
             THEN /\ formatted_text' = r.text
                  /\ pc' = "analyze"
                  /\ UNCHANGED resp
             ELSE /\ Answer(Response(500, ErrorBody(r.text)))
                  /\ UNCHANGED formatted_text
  /\ UNCHANGED <<req, raw_text>>

\* analyze_document_with_gemini(document_text) and the success response
AnalyzeWith(document_text) ==
  /\ pc = "analyze"
  /\ \E reply \in Replies :
       LET prompt == AnalyzePrompt(document_text)
           r == call_gemini_api(prompt, reply)
           a == InterpretResponse(r.text)
       IN /\ calls' = Append(calls, Call("gemini", prompt, r.ok, r.text, reply))
          /\ IF ~r.ok THEN Answer(Response(500, ErrorBody(r.text)))
             ELSE IF ~a.ok THEN Answer(Response(500, ErrorBody(a.text)))
             ELSE Answer(Response(200,
                    [EmptyBody EXCEPT !.keys = {"analysis", "fullText"},
                                      !.analysis = a.text,
                                      !.fullText = formatted_text]))
  /\ UNCHANGED <<req, raw_text, formatted_text>>

\* a variant that analyzes the extracted text instead of the reformatted one
AnalyzeInterpretRaw == AnalyzeWith(raw_text)

\* analyze_endpoint: analysis_data = analyze_document_with_gemini(formatted_text)
AnalyzeInterpret == AnalyzeWith(formatted_text)

\* `not data or key not in data` for each required key
MissingKeys(data, required) ==
  data.kind = "none" \/ data.keys = {} \/ ~(required \subseteq data.keys)

\* simplify_endpoint and chat_endpoint: validate, one generation call, answer
GenerateEndpoint(route, required, prompt, key, missing, failure) ==
  /\ pc = "handler"
  /\ req.route = route
  /\ IF req.data.kind = "malformed"
     THEN /\ Answer(Response(500, ErrorBody(failure)))
          /\ UNCHANGED calls
     ELSE IF MissingKeys(req.data, required)
     THEN /\ Answer(Response(400, ErrorBody(missing)))
          /\ UNCHANGED calls
     ELSE \E reply \in Replies :
            LET r == call_gemini_api(prompt, reply)
            IN /\ calls' = Append(calls, Call("gemini", prompt, r.ok, r.text, reply))
               /\ IF r.ok
                  THEN Answer(Response(200,
                         [EmptyBody EXCEPT !.keys = {key}, ![key] = r.text]))
                  ELSE Answer(Response(500, ErrorBody(failure)))
  /\ UNCHANGED <<req, raw_text, formatted_text>>

SimplifyEndpoint ==
  GenerateEndpoint("simplify", {"documentText"},
                   SimplifyPrompt(req.data.vals["documentText"]),
                   "simplifiedText", <<"Missing document text">>,
                   <<"Could not simplify the document.">>)

ChatEndpoint ==
  GenerateEndpoint("chat", {"question", "documentText"},
                   ChatPrompt(req.data.vals["documentText"], req.data.vals["question"]),
                   "answer", <<"Missing data">>,
                   <<"Could not process question.">>)

\* the message the except clause of signup picks for an exception with this
\* code attribute
SignupErrorMessage(code) ==
  IF code = "EMAIL_EXISTS" THEN <<"The email address is already in use.">>
  ELSE IF code = "WEAK_PASSWORD" THEN <<"Password should be at least 6 characters.">>
  ELSE <<"An unknown error occurred.">>

\* signup, with auth..create_user read as the single call auth.create_user
Signup ==
  /\ pc = "handler"
  /\ req.route = "signup"
  /\ IF req.data.kind = "malformed"
     THEN \* get_json raises BadRequest, whose code is the number 400
          /\ Answer(Response(400, ErrorBody(SignupErrorMessage("400"))))
          /\ UNCHANGED calls
     ELSE IF req.data.kind = "none"
     THEN \* data.get on None raises AttributeError
          /\ Answer(Response(400, ErrorBody(SignupErrorMessage(""))))
          /\ UNCHANGED calls
     ELSE IF req.data.vals["email"] = <<>> \/ req.data.vals["password"] = <<>>
     THEN /\ Answer(Response(400, ErrorBody(<<"Email and password are required">>)))
          /\ UNCHANGED calls
     ELSE \E out \in AuthOutcomes :
            /\ calls' = Append(calls, Call("auth", req.data.vals["email"], out.ok, out.uid, NoReply))
            /\ IF out.ok
               THEN Answer(Response(201, [EmptyBody EXCEPT !.keys = {"uid"}, !.uid = out.uid]))
               ELSE Answer(Response(400, ErrorBody(SignupErrorMessage(out.code))))
  /\ UNCHANGED <<req, raw_text, formatted_text>>

\* the response is sent; nothing of the request is kept
Finish ==
  /\ pc = "done"
  /\ pc' = "idle"
  /\ req' = NoRequest
  /\ raw_text' = <<>>
  /\ formatted_text' = <<>>
  /\ calls' = <<>>
  /\ resp' = NoResponse

Next ==
  \/ ReceiveRequest
  \/ AnalyzeValidate
  \/ AnalyzeExtract
  \/ AnalyzeReformat
  \/ AnalyzeInterpret
  \/ SimplifyEndpoint
  \/ ChatEndpoint
  \/ Signup
  \/ Finish

Spec == Init /\ [][Next]_vars

(***************************************************************************)
(* Properties.                                                             *)
(***************************************************************************)
Extractors == {"docx", "vision", "decode"}

IsError(r, status) == r.status = status /\ r.body.keys = {"error"}

\* C1: in an /analyze request the external calls are, in this order and
\* each at most once, one extraction strategy, the reformat generation call
\* on the extracted text and the analyze generation call on the text the
\* reformat call returned; a failed call is the last call and the request
\* ends with an error response; a 200 response carries the reformat call's
\* output as fullText and the interpretation of the second generation
\* call's output as analysis.
C1_Pipeline ==
  req.route = "analyze" =>
    /\ Len(calls) <= 3
    /\ Len(calls) >= 1 => calls[1].svc \in Extractors
    /\ Len(calls) >= 2 =>
         /\ calls[1].ok
         /\ calls[2].svc = "gemini"
         /\ calls[2].arg = ReformatPrompt(calls[1].out)
    /\ Len(calls) >= 3 =>
         /\ calls[2].ok
         /\ calls[3].svc = "gemini"
         /\ calls[3].arg = AnalyzePrompt(calls[2].out)
    /\ \A i \in 1..Len(calls) :
         ~calls[i].ok => i = Len(calls) /\ pc = "done" /\ IsError(resp, 500)
    /\ (pc = "done" /\ resp.status = 200) =>
         /\ Len(calls) = 3
         /\ calls[3].ok
         /\ resp.body.keys = {"analysis", "fullText"}
         /\ resp.body.fullText = calls[2].out
         /\ resp.body.analysis = InterpretResponse(calls[3].out).text
    /\ pc = "done" => resp.status \in {200, 400, 500}

\* C1, its case: a 200 response to an upload whose reformatted text differs
\* from the extracted text
C1_Witness ==
  /\ req.route = "analyze"
  /\ pc = "done"
  /\ resp.status = 200
  /\ raw_text # formatted_text
  /\ resp.body.fullText = formatted_text

\* C2: interpreting a generation response never fails: whenever both
\* generation calls of /analyze succeeded the answer is 200, and its
\* analysis is the parsed JSON value of the cleaned response or exactly the
\* fallback.
C2_InterpretNeverFails ==
  (req.route = "analyze" /\ pc = "done" /\ Len(calls) = 3 /\ calls[3].ok) =>
    /\ resp.status = 200
    /\ LET p == JsonLoads(CleanResponse(calls[3].out))
       IN \/ resp.body.analysis = Fallback
          \/ p.st = "ok" /\ resp.body.analysis = p.val

\* the required input of the request is missing or empty (a body that is
\* no JSON at all is left aside)
NoInput(r) ==
  \/ r.route = "analyze" /\ (~r.hasFile \/ r.filename = <<>> \/ r.bytes = <<>>)
  \/ r.route = "simplify" /\ r.data.kind # "malformed"
                           /\ r.data.vals["documentText"] = <<>>
  \/ r.route = "chat" /\ r.data.kind # "malformed"
                       /\ \/ r.data.vals["documentText"] = <<>>
                          \/ r.data.vals["question"] = <<>>

\* C3: on /analyze, /simplify and /chat the step that meets a missing or
\* empty required input answers 400 with an error body (the stated message
\* where the claim states one) and no extraction or generation call is made.
C3_MissingInputIs400 ==
  [][ ( /\ req.route \in {"analyze", "simplify", "chat"}
        /\ NoInput(req)
        /\ \/ pc = "extract"
           \/ pc = "handler" /\ (req.route = "analyze" => ~req.hasFile \/ req.filename = <<>>) )
      => ( /\ pc' = "done"
           /\ IsError(resp', 400)
           /\ calls' = <<>>
           /\ (req.route = "analyze" /\ ~req.hasFile) => resp'.body.error = <<"No file part">>
           /\ req.route = "simplify" => resp'.body.error = <<"Missing document text">>
           /\ req.route = "chat" => resp'.body.error = <<"Missing data">> ) ]_vars

BodyFields == {"error", "analysis", "fullText", "simplifiedText", "answer", "uid"}

\* C4: no response body contains the configured API key.
C4_NoKeyInResponse ==
  pc = "done" =>
    \A f \in BodyFields : \A i \in 1..Len(resp.body[f]) : resp.body[f][i] # API_KEY

\* C5: /signup answers 400 "Email and password are required" without
\* calling the provider when email or password is missing; 201 with the uid
\* when the provider returns one; 400 with the message mapped from the
\* provider's error code otherwise; never 500; the provider is called at
\* most once.
C5_SignupOutcomes ==
  (req.route = "signup" /\ pc = "done") =>
    LET d == req.data
        missing == d.kind # "object" \/ d.vals["email"] = <<>> \/ d.vals["password"] = <<>>
    IN /\ resp.status # 500
       /\ Len(calls) <= 1
       /\ missing =>
            /\ calls = <<>>
            /\ resp.status = 400
            /\ resp.body.error = <<"Email and password are required">>
       /\ ~missing =>
            /\ Len(calls) = 1
            /\ calls[1].svc = "auth"
            /\ calls[1].ok => resp.status = 201 /\ resp.body.keys = {"uid"}
                              /\ resp.body.uid = calls[1].out
            /\ ~calls[1].ok =>
                 /\ IsError(resp, 400)
                 /\ resp.body.error \in
                      { <<"The email address is already in use.">>,
                        <<"Password should be at least 6 characters.">>,
                        <<"An unknown error occurred.">> }

\* C6: extraction of an empty upload fails, whatever the media type, before
\* any parser, OCR or decoder is invoked, and /analyze makes no generation
\* call for it: the extraction step ends the request with an error and an
\* empty call log.
C6_EmptyUploadFails ==
  [][ (pc = "extract" /\ req.bytes = <<>>)
      => ( /\ pc' = "done"
           /\ resp'.status >= 400
           /\ resp'.body.keys = {"error"}
           /\ calls' = <<>> ) ]_vars

\* C6, its case: an empty word-processing upload was refused
C6_Witness ==
  /\ pc = "done"
  /\ req.route = "analyze"
  /\ Contains(req.mime, DocxMarker)
  /\ resp.body.error = <<"The uploaded file is empty.">>
  /\ calls = <<>>

\* C7: for a non-empty upload the extraction step runs exactly one strategy,
\* chosen by the media type in this order: contains the word-processing
\* marker -> document parser; else starts with application/pdf or image/ ->
\* OCR; else starts with text/ -> UTF-8 decoding; else nothing runs and the
\* request fails with a message that includes the media type.
C7_Dispatch ==
  [][ (pc = "extract" /\ req.bytes # <<>>)
      => LET m == req.mime
             ran(svc) == Len(calls') = 1 /\ calls'[1].svc = svc
         IN IF Contains(m, DocxMarker) THEN ran("docx")
            ELSE IF StartsWith(m, PdfPrefix) \/ StartsWith(m, ImagePrefix) THEN ran("vision")
            ELSE IF StartsWith(m, TextPrefix) THEN ran("decode")
            ELSE /\ calls' = <<>>
                 /\ pc' = "done"
                 /\ resp'.status >= 400
                 /\ resp'.body.keys = {"error"}
                 /\ Contains(resp'.body.error, m) ]_vars

\* C7, its case: a text/ media type that contains the word-processing
\* marker went to the document parser
C7_Witness ==
  /\ req.route = "analyze"
  /\ StartsWith(req.mime, TextPrefix)
  /\ Contains(req.mime, DocxMarker)
  /\ Len(calls) >= 1
  /\ calls[1].svc = "docx"

NoCandidatesMessage ==
  <<"API returned no candidates. The prompt may have been blocked.">>

\* the outcome of generation call c for a reply whose status is in ok_status
GeminiOutcome(c, ok_status) ==
  LET r == c.reply
  IN r.kind = "http" =>
       /\ r.status \notin ok_status =>
            /\ ~c.ok
            /\ Contains(c.out, <<ToString(r.status)>>)
            /\ Contains(c.out, RawBody(r))
       /\ (r.status \in ok_status /\ r.shape \in {"nocands", "emptycands"}) =>
            ~c.ok /\ c.out = NoCandidatesMessage
       /\ (r.status \in ok_status /\ r.shape = "text") =>
            c.ok /\ c.out = r.text

\* C8 as stated: every non-2xx reply fails with the status code and the
\* body, every 2xx reply without candidates fails with the no-candidates
\* error, every 2xx reply with a candidate text returns that text unchanged.
C8_Original ==
  \A i \in 1..Len(calls) :
    calls[i].svc = "gemini" => GeminiOutcome(calls[i], 200..299)

\* C8 amended: every reply whose status is not 200 fails with the status
\* code and the body, every 200 reply without candidates fails with the
\* no-candidates error, every 200 reply with a candidate text returns that
\* text unchanged.
C8_Status200 ==
  \A i \in 1..Len(calls) :
    calls[i].svc = "gemini" => GeminiOutcome(calls[i], {200})

\* C8, its case: a 201 reply that carries a candidate text was refused
C8_Witness ==
  \E i \in 1..Len(calls) :
    /\ calls[i].svc = "gemini"
    /\ calls[i].reply.status = 201
    /\ calls[i].reply.shape = "text"
    /\ ~calls[i].ok

C10_OnlyOuterFences ==
  (req.route = "analyze" /\ pc = "done" /\ Len(calls) = 3 /\ calls[3].ok) =>
    \A l \in LeadFences, t \in TrailFences :
      LET text == calls[3].out
          inner == SubSeq(text, Len(l) + 1, Len(text) - Len(t))
      IN ( /\ Len(text) >= Len(l) + Len(t)
           /\ StartsWith(text, l)
           /\ EndsWith(text, t)
           /\ JsonLoads(inner).st = "ok" )
         => /\ resp.status = 200
            /\ resp.body.analysis = JsonLoads(inner).val

====
